---- MODULE Spec2Model ----
(***************************************************************************)
(* Workflow orchestration of the autonomous browser agent                  *)
(* (src/src/browser_agent/orchestration.py): the LangGraph nodes planner,  *)
(* redirector, executor, output_agent and rag_agent, the state they share  *)
(* (AgentState), the top-level entry run_agent with its cleanup, and the   *)
(* browser manager singleton (src/src/browser_agent/browser/manager.py).   *)
(*                                                                         *)
(* One action per node function: the action applies the node's state delta *)
(* with the reducers AgentState declares (operator.add for the lists,      *)
(* overwrite for the rest) and moves pc to the node's goto target.         *)
(*                                                                         *)
(* The list fields messages, execution_messages, rag_messages and          *)
(* output_agent_messages only grow and are only ever read at their end     *)
(* ([-1]); each is represented by its last element.                        *)
(***************************************************************************)
EXTENDS Integers, Sequences, FiniteSets, TLC

\* ---------------------------------------------------------------- bounds
\* successful Planner calls explored per run
MaxPlans == 2
\* longest output_content explored
MaxContent == 3
\* longest urls / site_names explored
MaxSites == 2

\* most API keys configured per provider (rotation requests on their own)
MaxKeys == 2
\* largest start_index a rotation is requested with
MaxStart == 5

\* ------------------------------------------------------- values and steps
\* Python None / JSON null
None == "None"
\* a key that the dict does not have
Absent == "<absent>"
\* marks a list element that is not a dict (e.g. a JSON string among the steps)
NotADict == "<nondict>"

Agents == {"RAG", "EXECUTION", "OUTPUT_FORMATTING", "PLANNER", "end"}

\* a plan step as the Planner stores it: a plain dict parsed from JSON
Stp(a, q, c, r, n) ==
    [agent |-> a, query |-> q, content |-> c, rag_message |-> r, step_number |-> n]

\* a "steps" element that is no dict: indexing it with a key raises
NonDict == Stp(NotADict, NotADict, NotADict, NotADict, 0)

IsDict(s) == s.agent # NotADict

Min(a, b) == IF a <= b THEN a ELSE b

\* Python s[:n] for n >= 0
Take(s, n) == SubSeq(s, 1, Min(n, Len(s)))

\* Python s[n:] for n >= 0
Drop(s, n) == SubSeq(s, Min(n, Len(s)) + 1, Len(s))

\* ------------------------------------------------------------ environment
\* candidates of the "main" rotation in build order (Gemini keys, then Groq)
MainBuilt == <<"gemini_llm1", "groq_llm1">>

\* candidates of the "execution" rotation in build order
ExecBuilt == <<"groq_llm1", "groq_llm2", "sambanova1">>

\* the model's structured answers to a planning prompt
\*   kind "json":       a JSON object; steps is its "steps" list
\*   kind "unparsable": json.loads raises
\*   kind "notdict":    valid JSON that is a list (result.get raises)
Responses ==
    { [kind |-> "json", sites |-> <<"google">>, urls |-> <<"https://google.com">>,
       steps |-> << Stp("EXECUTION", "search", Absent, Absent, 1),
                    Stp("OUTPUT_FORMATTING", "format", Absent, Absent, 2),
                    Stp("end", "done", Absent, Absent, 3) >>],
      [kind |-> "json", sites |-> <<>>, urls |-> <<>>,
       steps |-> << Stp("EXECUTION", "open", None, None, 0),
                    Stp("EXECUTION", "scrape", None, None, 0),
                    Stp("PLANNER", "replan", None, None, 0) >>],
      [kind |-> "json", sites |-> <<>>, urls |-> <<>>,
       steps |-> << Stp("RAG", "store", None, "lesson", 5),
                    Stp("OUTPUT_FORMATTING", "fmt", "data", None, 6),
                    Stp("UNKNOWN_TAG", "x", None, None, 7) >>],
      [kind |-> "json", sites |-> <<>>, urls |-> <<>>, steps |-> <<>>],
      [kind |-> "json", sites |-> <<>>, urls |-> <<>>,
       steps |-> << Stp("RAG", "remember", None, Absent, 1),
                    Stp("end", Absent, "bye", None, 2) >>],
      [kind |-> "json", sites |-> <<>>, urls |-> <<>>,
       steps |-> << Stp("end", Absent, "bye", None, 1) >>],
      [kind |-> "json", sites |-> <<"google">>, urls |-> <<"https://google.com">>,
       steps |-> << Stp("EXECUTION", "open", None, None, 1), NonDict >>],
      [kind |-> "json", sites |-> <<>>, urls |-> <<>>,
       steps |-> << Stp(Absent, "noagent", None, None, 1) >>],
      [kind |-> "json", sites |-> <<>>, urls |-> <<>>,
       steps |-> << Stp("BROWSE", Absent, None, None, 1) >>],
      [kind |-> "unparsable", sites |-> <<>>, urls |-> <<>>, steps |-> <<>>],
      [kind |-> "notdict", sites |-> <<>>, urls |-> <<>>, steps |-> <<>>] }

\* the answers explored together with the browser: Scenario A, a step that
\* cannot be dispatched, a plan with a RAG step, and an answer that does
\* not parse
BrowserRunResponses ==
    { r \in Responses :
        \/ r.kind = "unparsable"
        \/ /\ r.kind = "json" /\ r.steps # <<>>
           /\ r.steps[1].query \in {"search", "store", Absent}
           /\ r.steps[1].agent \in Agents }

VARIABLES
    pc,                    \* node the graph runs next / where run_agent is
    plan, step_index, last_error,
    urls, site_names,
    output_content, Output,
    current_model_index,
    messages, execution_messages, rag_messages, output_agent_messages,
    page, browser, playwright,   \* BrowserManager._page/_browser/_playwright
    current_site_name,           \* BrowserManager._current_site_name
    contexts,                    \* browser contexts launched and not closed
    tavily_key, main_keys,       \* process environment
    plans_made,                  \* successful Planner calls so far
    dispatched,                  \* position of the step last handed to a worker
    result,                      \* what run_agent handed to its caller
    rotation_list,               \* what a rotation request handed to its caller
    tried, caught, ended,        \* the rotation loop that ran last: candidates
                                 \* invoked, its local last_error, and how it
                                 \* was left ("return", "break", "exhausted")
    doc,                         \* the Document the Memory worker built last
    intermediate_steps,          \* result["intermediate_steps"] of the
                                 \* Execution worker's last successful call
    HAS_CHROMADB,                \* the chromadb imports succeeded
    vector_db_instance,          \* _vector_db_instance
    documents                    \* sites of the documents in the collection

wf == <<plan, step_index, last_error, urls, site_names, output_content, Output,
        current_model_index, messages, execution_messages, rag_messages,
        output_agent_messages>>
mgr == <<page, browser, playwright, current_site_name, contexts>>
env == <<tavily_key, main_keys>>
loop == <<tried, caught, ended, doc, intermediate_steps>>
mem == <<HAS_CHROMADB, vector_db_instance, documents>>
vars == <<pc, wf, mgr, env, plans_made, dispatched, result, rotation_list, loop, mem>>

\* tried, caught and ended belong to the call of the worker whose loop ran:
\* they hold what the loop left when the worker returned, and are gone with
\* its frame once another node runs
FrameLeft ==
    /\ tried' = 0 /\ caught' = None /\ ended' = ""
    /\ doc' = None /\ intermediate_steps' = <<>>

\* a chat message: who wrote it and what it says; index and tag carry the
\* values formatted into the Redirector's diagnostic (-1 and "" elsewhere)
Msg(role, text) == [role |-> role, text |-> text, index |-> -1, tag |-> ""]

NoMsg == Msg("", "")

\* ------------------------------------------------------------------ Init
\* run_agent: the initial state handed to app.invoke, with START -> planner.
\* The browser manager is a fresh singleton; the environment either has the
\* search key and model keys or lacks them.
Init ==
    /\ pc = "planner"
    /\ plan = <<>>
    /\ step_index = 0
    /\ last_error = None
    /\ urls = <<>>
    /\ site_names = <<>>
    /\ output_content = <<>>
    /\ Output = ""
    /\ current_model_index = 0
    /\ messages = NoMsg
    /\ execution_messages = NoMsg
    /\ rag_messages = NoMsg
    /\ output_agent_messages = NoMsg
    /\ page = None
    /\ browser = None
    /\ playwright = None
    /\ current_site_name = None
    /\ contexts = 0
    /\ tavily_key \in BOOLEAN
    /\ main_keys \in {<<>>, MainBuilt}
    /\ plans_made = 0
    /\ dispatched = -1
    /\ result = [key |-> "", value |-> ""]
    /\ rotation_list = <<>>
    /\ tried = 0
    /\ caught = None
    /\ ended = ""
    /\ doc = None
    /\ intermediate_steps = <<>>
    /\ HAS_CHROMADB = TRUE
    /\ vector_db_instance = None
    /\ documents = {}

\* ------------------------------------------------------------------ text
UpperCase ==
    << "A", "B", "C", "D", "E", "F", "G", "H", "I", "J", "K", "L", "M",
       "N", "O", "P", "Q", "R", "S", "T", "U", "V", "W", "X", "Y", "Z" >>

LowerCase ==
    << "a", "b", "c", "d", "e", "f", "g", "h", "i", "j", "k", "l", "m",
       "n", "o", "p", "q", "r", "s", "t", "u", "v", "w", "x", "y", "z" >>

\* str.lower()
lower(t) ==
    [i \in 1..Len(t) |->
        IF \E k \in 1..Len(UpperCase) : UpperCase[k] = t[i]
        THEN LowerCase[CHOOSE k \in 1..Len(UpperCase) : UpperCase[k] = t[i]]
        ELSE t[i]]

\* Python `w in t` for strings: w occurs in t as a substring
In(w, t) ==
    \E i \in 0..(Len(t) - Len(w)) : SubSeq(t, i + 1, i + Len(w)) = w

\* the texts the `in` tests of the rotation loops look for in str(e).lower()
Sig429 == << "4", "2", "9" >>

Sig413 == << "4", "1", "3" >>

SigRateLimit == << "r", "a", "t", "e", " ", "l", "i", "m", "i", "t" >>

SigQuota == << "q", "u", "o", "t", "a" >>

SigResourceExhausted == << "r", "e", "s", "o", "u", "r", "c", "e", "_", "e", "x", "h", "a", "u",
                           "s", "t", "e", "d" >>

SigRequestTooLarge == << "r", "e", "q", "u", "e", "s", "t", " ", "t", "o", "o", " ", "l", "a",
                         "r", "g", "e" >>

SigEmptyOutput == << "e", "m", "p", "t", "y", " ", "o", "u", "t", "p", "u", "t" >>

SigFailedToCall == << "f", "a", "i", "l", "e", "d", " ", "t", "o", " ", "c", "a", "l", "l",
                      " ", "a", " ", "f", "u", "n", "c", "t", "i", "o", "n" >>

SigToolCall == << "t", "o", "o", "l", "_", "c", "a", "l", "l" >>

SigModelNotFound == << "m", "o", "d", "e", "l", "_", "n", "o", "t", "_", "f", "o", "u", "n",
                       "d" >>

SigDoesNotExist == << "d", "o", "e", "s", " ", "n", "o", "t", " ", "e", "x", "i", "s", "t" >>

\* ------------------------------------------------------------ exceptions
\* str(e) of the exceptions a model call raises
\* a provider rejects the call for its rate
RateLimited ==
    [text |-> "Error code: 429 - Rate limit reached",
     chars |-> << "E", "r", "r", "o", "r", " ", "c", "o", "d", "e", ":", " ", "4", "2",
                 "9", " ", "-", " ", "R", "a", "t", "e", " ", "l", "i", "m", "i", "t",
                 " ", "r", "e", "a", "c", "h", "e", "d" >>]

\* a provider rejects the size of the request
TooLarge ==
    [text |-> "Error code: 413 - Request too large",
     chars |-> << "E", "r", "r", "o", "r", " ", "c", "o", "d", "e", ":", " ", "4", "1",
                 "3", " ", "-", " ", "R", "e", "q", "u", "e", "s", "t", " ", "t", "o",
                 "o", " ", "l", "a", "r", "g", "e" >>]

\* the model produced a malformed tool call
ToolCallFailed ==
    [text |-> "Failed to call a function",
     chars |-> << "F", "a", "i", "l", "e", "d", " ", "t", "o", " ", "c", "a", "l", "l",
                 " ", "a", " ", "f", "u", "n", "c", "t", "i", "o", "n" >>]

\* the provider does not know the model
ModelMissing ==
    [text |-> "The model does not exist",
     chars |-> << "T", "h", "e", " ", "m", "o", "d", "e", "l", " ", "d", "o", "e", "s",
                 " ", "n", "o", "t", " ", "e", "x", "i", "s", "t" >>]

\* a failure that is none of the above
ConnectionReset ==
    [text |-> "Connection reset by peer",
     chars |-> << "C", "o", "n", "n", "e", "c", "t", "i", "o", "n", " ", "r", "e", "s",
                 "e", "t", " ", "b", "y", " ", "p", "e", "e", "r" >>]

\* central_agent1: `if not raw_output: raise ValueError(...)`; the dash of the
\* message is written "-" here
EmptyOutput ==
    [text |-> "Planner LLM returned empty output - retrying with next key",
     chars |-> << "P", "l", "a", "n", "n", "e", "r", " ", "L", "L", "M", " ", "r", "e",
                 "t", "u", "r", "n", "e", "d", " ", "e", "m", "p", "t", "y", " ", "o",
                 "u", "t", "p", "u", "t", " ", "-", " ", "r", "e", "t", "r", "y", "i",
                 "n", "g", " ", "w", "i", "t", "h", " ", "n", "e", "x", "t", " ", "k",
                 "e", "y" >>]

\* json.loads on a response that is no JSON
JSONDecodeError ==
    [text |-> "Expecting value: line 1 column 1 (char 0)",
     chars |-> << "E", "x", "p", "e", "c", "t", "i", "n", "g", " ", "v", "a", "l", "u",
                 "e", ":", " ", "l", "i", "n", "e", " ", "1", " ", "c", "o", "l", "u",
                 "m", "n", " ", "1", " ", "(", "c", "h", "a", "r", " ", "0", ")" >>]

\* result.get on a JSON list
ListHasNoGet ==
    [text |-> "'list' object has no attribute 'get'",
     chars |-> << "'", "l", "i", "s", "t", "'", " ", "o", "b", "j", "e", "c", "t", " ",
                 "h", "a", "s", " ", "n", "o", " ", "a", "t", "t", "r", "i", "b", "u",
                 "t", "e", " ", "'", "g", "e", "t", "'" >>]

\* step['step_number'] = i + 1 on a step that is a JSON string
StrItemAssignment ==
    [text |-> "'str' object does not support item assignment",
     chars |-> << "'", "s", "t", "r", "'", " ", "o", "b", "j", "e", "c", "t", " ", "d",
                 "o", "e", "s", " ", "n", "o", "t", " ", "s", "u", "p", "p", "o", "r",
                 "t", " ", "i", "t", "e", "m", " ", "a", "s", "s", "i", "g", "n", "m",
                 "e", "n", "t" >>]

\* what a model call can raise, and the two of them the long runs explore
ModelErrors == {RateLimited, TooLarge, ToolCallFailed, ModelMissing, ConnectionReset}

FewModelErrors == {RateLimited, ConnectionReset}

NoException == [text |-> None, chars |-> <<>>]

\* ---------------------------------------------------------- rotation loop
\* `for idx, (model_name, current_llm) in enumerate(llm_rotation): try: ...
\*  except Exception as e: last_error = str(e); if <retryable>: continue
\*  else: <break or return>`
\* The ways the loop over n candidates ends when a failing attempt fails as
\* one of F and `going` are those of F the except clause continues on:
\*   "return"    attempt number `tried` got through, those before it failed
\*               with failures the loop continues on;
\*   "break"     attempt number `tried` failed with a failure it stops on;
\*   "exhausted" all n attempts failed with failures it continues on.
\* `last` is the failure caught last (none: no attempt failed).  Over an
\* empty list the body never runs and the loop is exhausted at once.
RotationLoop(n, F, going, none) ==
    LET stopping == F \ going
        reach == IF going = {} THEN 1..1 ELSE 1..n
    IN  IF n = 0 THEN { [end |-> "exhausted", tried |-> 0, last |-> none] }
        ELSE
        { [end |-> "return", tried |-> 1, last |-> none] }
        \cup { [end |-> "return", tried |-> k, last |-> f] : k \in 2..n, f \in going }
        \cup { [end |-> "break", tried |-> k, last |-> f] : k \in reach, f \in stopping }
        \cup { [end |-> "exhausted", tried |-> n, last |-> f] : f \in going }

\* ------------------------------------------------------ provider rotation
\* variant: an empty rotation list is handed back
NoValidKeys_Never(built) == FALSE

\* LLMRouter.get_main_llm_with_rotation: `if not rotation_list: raise ValueError`
NoValidKeys(built) == built = <<>>

\* LLMRouter.get_main_llm_with_rotation, the rotation step
rotate(L, start_index) ==
    IF start_index > 0 THEN Drop(L, start_index) \o Take(L, start_index) ELSE L

\* APIKeyRotator.rotate_keys
rotate_keys(keys, start_index) ==
    IF keys = <<>> \/ start_index = 0 THEN keys
    ELSE Drop(keys, start_index) \o Take(keys, start_index)

\* the names get_main_llm_with_rotation gives the candidates of a provider:
\* f"gemini_llm{idx}" and f"groq_llm{idx}", idx counting the keys from 1
GeminiNames == <<"gemini_llm1", "gemini_llm2", "gemini_llm3", "gemini_llm4">>

GroqNames == <<"groq_llm1", "groq_llm2", "groq_llm3", "groq_llm4">>

\* rotation_list as built with no provider filter from n_gemini Gemini keys
\* and n_groq Groq keys: the Gemini candidates first, then the Groq ones
BuildMain(n_gemini, n_groq) == Take(GeminiNames, n_gemini) \o Take(GroqNames, n_groq)

\* LLMRouter.get_execution_llm_with_rotation: called by the Execution worker,
\* not defined by LLMRouter; modelled as the rotation of the execution list
get_execution_llm_with_rotation(start_index) == rotate(ExecBuilt, start_index)

\* --------------------------------------------------------------- Planner
\* variant: a pending error is looked at before the collected data
PlannerMode_ErrorFirst(oc, index, err) ==
    IF err # None THEN "recovery"
    ELSE IF oc # <<>> /\ index = 0 THEN "phase2"
    ELSE "fresh"

\* variant: data already collected always means the data-driven prompt
PlannerMode_DataFirst(oc, index, err) ==
    IF oc # <<>> THEN "phase2"
    ELSE IF err # None THEN "recovery"
    ELSE "fresh"

\* central_agent1: which of the three prompts is built
PlannerMode(oc, index, err) ==
    IF oc # <<>> /\ index = 0 THEN "phase2"
    ELSE IF err # None THEN "recovery"
    ELSE "fresh"

\* variant: the slice stops one step early
CompletedSteps_OneShort(p, index, mode) ==
    IF mode = "recovery" /\ p # <<>> THEN Take(p, index - 1) ELSE <<>>

\* variant: only the first step is kept
CompletedSteps_FirstOnly(p, index, mode) ==
    IF mode = "recovery" /\ p # <<>> THEN Take(p, 1) ELSE <<>>

\* central_agent1: completed_steps, the steps kept in front of the new ones
CompletedSteps(p, index, mode) ==
    IF mode = "recovery" /\ p # <<>> THEN Take(p, index) ELSE <<>>

\* variant: numbers the steps from 0, as the Step schema describes the field
Renumber_ZeroBased(p) ==
    [i \in 1..Len(p) |-> [p[i] EXCEPT !.step_number = i - 1]]

\* central_agent1: for i, step in enumerate(final_plan): step_number = i + 1
Renumber(p) ==
    [i \in 1..Len(p) |-> [p[i] EXCEPT !.step_number = (i - 1) + 1]]

\* central_agent1: final_plan of a successful attempt
FinalPlan(completed, new_steps) == Renumber(completed \o new_steps)

\* the attempt parses and every element of steps can be renumbered
AttemptSucceeds(resp) ==
    /\ resp.kind = "json"
    /\ \A i \in 1..Len(resp.steps) : IsDict(resp.steps[i])

\* central_agent1: detected_sites is bound once result.get has run
DetectedInLocals(resp) == resp.kind = "json"

\* successful_index = (start_index + idx) % len(llm_rotation)
SuccessfulIndex(start_index, idx, n) == (start_index + idx) % n

\* ------------------------------------------------- state deltas (Command)
\* A node returns Command(goto, update); update maps some AgentState keys to
\* values.  LangGraph merges it: keys with an operator.add reducer are
\* appended to, the others are overwritten, absent keys keep their value.
Command(goto, update) == [goto |-> goto, update |-> update]

NoUpdate == [f \in {} |-> None]

Overwrite(u, f, old) == IF f \in DOMAIN u THEN u[f] ELSE old

OperatorAdd(u, f, old) == IF f \in DOMAIN u THEN old \o u[f] ELSE old

\* a list represented by its last element: appending a non-empty list
AddLast(u, f, old) ==
    IF f \in DOMAIN u /\ u[f] # <<>> THEN u[f][Len(u[f])] ELSE old

\* AgentState: the merge of one node's update into the workflow state
ApplyUpdate(u) ==
    /\ plan' = Overwrite(u, "plan", plan)
    /\ step_index' = Overwrite(u, "step_index", step_index)
    /\ last_error' = Overwrite(u, "last_error", last_error)
    /\ urls' = OperatorAdd(u, "urls", urls)
    /\ site_names' = OperatorAdd(u, "site_names", site_names)
    /\ output_content' = OperatorAdd(u, "output_content", output_content)
    /\ Output' = Overwrite(u, "Output", Output)
    /\ current_model_index' = Overwrite(u, "current_model_index", current_model_index)
    /\ messages' = AddLast(u, "messages", messages)
    /\ execution_messages' = AddLast(u, "execution_messages", execution_messages)
    /\ rag_messages' = AddLast(u, "rag_messages", rag_messages)
    /\ output_agent_messages' = AddLast(u, "output_agent_messages", output_agent_messages)

\* ------------------------------------------------------- browser manager
\* contexts counts the persistent contexts that were launched and have not
\* been closed.  close_browser closes the context the manager refers to and
\* stops the driver, which ends every context the driver launched.
Closed ==
    [page |-> None, browser |-> None, playwright |-> None,
     current_site_name |-> None, contexts |-> 0]

Manager ==
    [page |-> page, browser |-> browser, playwright |-> playwright,
     current_site_name |-> current_site_name, contexts |-> contexts]

SetManager(m) ==
    /\ page' = m.page
    /\ browser' = m.browser
    /\ playwright' = m.playwright
    /\ current_site_name' = m.current_site_name
    /\ contexts' = m.contexts

\* Page.is_closed() on a handle whose calls fail
IsClosedRaises(m) == m.page = "broken"

\* BrowserManager.close_browser: every failure of a handle is swallowed
close_browser(m) == Closed

\* BrowserManager.is_browser_open (defined when is_closed() does not raise)
is_browser_open(m) == m.page # None /\ m.page # "closed"

\* BrowserManager.start_browser: starting the driver if there is none,
\* launch_persistent_context, and the assignments behind it
launch_persistent_context(m, safe_site_name) ==
    [page |-> "open", browser |-> "live", playwright |-> "started",
     current_site_name |-> safe_site_name, contexts |-> m.contexts + 1]

\* BrowserManager.start_browser(url, site_name);
\* goto_ok: navigating the open page succeeds,
\* launch_ok: the launch and the first navigation succeed
start_browser(m, safe_site_name, goto_ok, launch_ok) ==
    LET switched ==
            IF m.browser # None /\ m.current_site_name # safe_site_name
            THEN close_browser(m) ELSE m
        relaunch(x) ==
            IF launch_ok THEN launch_persistent_context(x, safe_site_name)
            ELSE close_browser(x)
    IN  IF switched.page # None /\ IsClosedRaises(switched) THEN close_browser(switched)
        ELSE IF is_browser_open(switched)
             THEN IF goto_ok THEN switched ELSE relaunch(close_browser(switched))
             ELSE relaunch(switched)

\* the site identities the open_browser tool is called with
Sites == {"google", "github"}

\* what can happen to the browser while a tool-calling loop runs: nothing,
\* open_browser for a site, the page is closed from outside, the page handle
\* starts failing
BrowserEffects ==
    {"none", "page_closed", "page_broken"} \cup { "open_" \o site : site \in Sites }

AfterEffect(m, fx) ==
    CASE fx = "open_google" -> start_browser(m, "google", TRUE, TRUE)
      [] fx = "open_github" -> start_browser(m, "github", TRUE, TRUE)
      [] fx = "renavigate_fails" -> start_browser(m, "google", FALSE, TRUE)
      [] fx = "launch_fails" -> start_browser(m, "google", FALSE, FALSE)
      [] fx = "page_closed" ->
            IF m.page = "open" THEN [m EXCEPT !.page = "closed"] ELSE m
      [] fx = "page_broken" ->
            IF m.page = "open" THEN [m EXCEPT !.page = "broken"] ELSE m
      [] OTHER -> m

\* ------------------------------------------------------ Planner (node)
\* central_agent1, the dict returned by a successful attempt with candidate
\* idx of the rotation
PlannerSuccess(idx, resp) ==
    LET mode == PlannerMode(output_content, step_index, last_error)
        completed_steps == CompletedSteps(plan, step_index, mode)
        llm_rotation == rotate(main_keys, current_model_index)
    IN  ("plan" :> FinalPlan(completed_steps, resp.steps))
        @@ ("step_index" :> Len(completed_steps))
        @@ ("last_error" :> None)
        @@ ("urls" :> resp.urls)
        @@ ("site_names" :> resp.sites)
        @@ ("current_model_index" :>
                SuccessfulIndex(current_model_index, idx, Len(llm_rotation)))
        @@ ("messages" :> << Msg("human", "[Planner]: Plan updated.") >>)

\* variant: the fallback leaves last_error as it found it
PlannerFallback_KeepsError(detected, resp) ==
    LET mode == PlannerMode(output_content, step_index, last_error)
        completed_steps == CompletedSteps(plan, step_index, mode)
    IN  ("plan" :> plan)
        @@ ("step_index" :> Len(completed_steps))
        @@ ("urls" :> IF detected THEN resp.urls ELSE <<>>)
        @@ ("site_names" :> IF detected THEN resp.sites ELSE <<>>)
        @@ ("messages" :>
                << Msg("human", "[Planner]: Planning failed. Using existing plan.") >>)

\* variant: the fallback gives up the plan
PlannerFallback_NoPlan(detected, resp) ==
    ("plan" :> <<>>)
        @@ ("step_index" :> 0)
        @@ ("last_error" :> None)
        @@ ("urls" :> <<>>)
        @@ ("site_names" :> <<>>)
        @@ ("messages" :>
                << Msg("human", "[Planner]: Planning failed. Using existing plan.") >>)

\* central_agent1, the dict returned after the loop ("All keys exhausted");
\* detected: whether detected_urls/detected_sites were bound by an attempt
PlannerFallback(detected, resp) ==
    LET mode == PlannerMode(output_content, step_index, last_error)
        completed_steps == CompletedSteps(plan, step_index, mode)
    IN  ("plan" :> plan)
        @@ ("step_index" :> Len(completed_steps))
        @@ ("last_error" :> None)
        @@ ("urls" :> IF detected THEN resp.urls ELSE <<>>)
        @@ ("site_names" :> IF detected THEN resp.sites ELSE <<>>)
        @@ ("messages" :>
                << Msg("human", "[Planner]: Planning failed. Using existing plan.") >>)

\* variant: only the rate-limit, quota and size signatures are retried
PlannerRetryable_LimitsOnly(error_str) ==
    \/ In(Sig429, error_str) \/ In(Sig413, error_str)
    \/ In(SigRateLimit, error_str) \/ In(SigQuota, error_str)
    \/ In(SigResourceExhausted, error_str) \/ In(SigRequestTooLarge, error_str)

\* central_agent1: the `if` of the except clause, error_str = str(e).lower()
PlannerRetryable(error_str) ==
    \/ In(Sig429, error_str) \/ In(Sig413, error_str)
    \/ In(SigRateLimit, error_str) \/ In(SigQuota, error_str)
    \/ In(SigResourceExhausted, error_str) \/ In(SigRequestTooLarge, error_str)
    \/ In(SigEmptyOutput, error_str)

\* a model answer with no output: response.get("output") is falsy
EmptyResponse == [kind |-> "empty", sites |-> <<>>, urls |-> <<>>, steps |-> <<>>]

\* the attempt failed before the model answered
NoResponse == [kind |-> "none", sites |-> <<>>, urls |-> <<>>, steps |-> <<>>]

\* central_agent1: the exception an attempt raises on the answer resp
AttemptError(resp) ==
    CASE resp.kind = "empty" -> EmptyOutput
      [] resp.kind = "unparsable" -> JSONDecodeError
      [] resp.kind = "notdict" -> ListHasNoGet
      [] resp.kind = "json" /\ ~AttemptSucceeds(resp) -> StrItemAssignment
      [] OTHER -> NoException

\* the ways one attempt of the Planner fails: the model call raises one of
\* EX, or an answer of R is empty, does not parse or cannot be renumbered
PlannerFailures(R, EX) ==
    { [exc |-> e, resp |-> NoResponse] : e \in EX }
    \cup { [exc |-> AttemptError(resp), resp |-> resp] :
                resp \in { r \in R : ~AttemptSucceeds(r) } }

NoPlannerFailure == [exc |-> NoException, resp |-> NoResponse]

PlannerContinues(f) == PlannerRetryable(lower(f.exc.chars))

\* central_agent1, for the model answers R and the model-call failures EX.
\* The model may call the close_browser tool while planning.
Planner(R, EX) ==
    /\ pc = "planner"
    /\ \/ \* get_main_llm_with_rotation raises, or TAVILY_API_KEY is missing
          /\ NoValidKeys(main_keys) \/ ~tavily_key
          /\ pc' = "raised"
          /\ UNCHANGED <<wf, mgr, plans_made>>
          /\ FrameLeft
       \/ \* candidates before idx fail with a retryable signature, idx succeeds
          /\ ~NoValidKeys(main_keys) /\ tavily_key
          /\ plans_made < MaxPlans
          /\ \E run \in RotationLoop(Len(rotate(main_keys, current_model_index)),
                                     PlannerFailures(R, EX),
                                     { f \in PlannerFailures(R, EX) :
                                           PlannerContinues(f) },
                                     NoPlannerFailure),
                resp \in R, closes \in BOOLEAN :
                /\ run.end = "return"
                /\ AttemptSucceeds(resp)
                /\ Len(site_names \o resp.sites) <= MaxSites
                /\ ApplyUpdate(PlannerSuccess(run.tried - 1, resp))
                /\ SetManager(IF closes THEN close_browser(Manager) ELSE Manager)
                /\ tried' = run.tried
                /\ caught' = run.last.exc.text
                /\ ended' = run.end
                /\ doc' = None
                /\ intermediate_steps' = <<>>
          /\ plans_made' = plans_made + 1
          /\ pc' = "redirector"
       \/ \* every candidate fails retryably, or one fails otherwise
          /\ ~NoValidKeys(main_keys) /\ tavily_key
          /\ \E run \in RotationLoop(Len(rotate(main_keys, current_model_index)),
                                     PlannerFailures(R, EX),
                                     { f \in PlannerFailures(R, EX) :
                                           PlannerContinues(f) },
                                     NoPlannerFailure),
                closes \in BOOLEAN :
                /\ run.end # "return"
                /\ DetectedInLocals(run.last.resp)
                      => Len(site_names \o run.last.resp.sites) <= MaxSites
                /\ ApplyUpdate(PlannerFallback(DetectedInLocals(run.last.resp),
                                               run.last.resp))
                /\ SetManager(IF closes THEN close_browser(Manager) ELSE Manager)
                /\ tried' = run.tried
                /\ caught' = run.last.exc.text
                /\ ended' = run.end
                /\ doc' = None
                /\ intermediate_steps' = <<>>
          /\ plans_made' = plans_made
          /\ pc' = "redirector"
    /\ UNCHANGED <<env, dispatched, result, rotation_list, mem>>

\* ----------------------------------------------------------- Redirector
\* Python truthiness of an optional string
Truthy(v) == v # None /\ v # "" /\ v # Absent

\* redirector: the step cannot be logged or read (KeyError / TypeError)
RedirectorRaises(p, index) ==
    /\ index < Len(p)
    /\ LET step == p[index + 1] IN
          \/ step.agent = Absent
          \/ step.query \in {Absent, None}
          \/ step.agent = "RAG" /\ step.rag_message = Absent

\* variant: completion is handled like an `end` step
PlanCompleted_AsEnd == Command("END", ("step_index" :> 0) @@ ("plan" :> <<>>))

\* redirector: index >= len(plan), "Plan execution completed."
PlanCompleted == Command("END", NoUpdate)

\* variant: the end branch clears the plan and advances like a dispatch
EndOfPlan_Advancing(index) ==
    Command("END", ("step_index" :> index + 1) @@ ("plan" :> <<>>))

\* redirector: the end branch
EndOfPlan(index) == Command("END", ("step_index" :> 0) @@ ("plan" :> <<>>))

\* variant: the EXECUTION branch sends the tag where the query belongs
DispatchExecution_TagAsMessage(step, next_step_update) ==
    Command("executor",
        next_step_update
        @@ ("execution_messages" :> << Msg("human", step.agent) >>))

\* variant: the EXECUTION branch leaves next_step_update out
DispatchExecution_NoAdvance(step, next_step_update) ==
    Command("executor", ("execution_messages" :> << Msg("human", step.query) >>))

\* variant: the EXECUTION branch advances and appends nothing to the mailbox
DispatchExecution_NoMessage(step, next_step_update) ==
    Command("executor", next_step_update)

\* redirector: the EXECUTION branch
DispatchExecution(step, next_step_update) ==
    Command("executor",
        next_step_update
        @@ ("execution_messages" :> << Msg("human", step.query) >>))

\* redirector: the Command it returns for plan p, step_index index and
\* output_content oc, when it does not raise
RedirectorCommand(p, index, oc) ==
    IF index >= Len(p) THEN PlanCompleted
    ELSE
    LET step == p[index + 1]
        next_step_update == ("step_index" :> index + 1)
    IN  CASE step.agent = "PLANNER" ->
                Command("planner",
                    ("step_index" :> 0)
                    @@ ("messages" :> << Msg("human", "Phase 1 complete. Data extracted. Please plan Phase 2.") >>))
          [] step.agent = "RAG" ->
                Command("rag_agent",
                    next_step_update
                    @@ ("rag_messages" :>
                          << Msg("human", IF Truthy(step.rag_message)
                                          THEN step.rag_message ELSE step.query) >>))
          [] step.agent = "EXECUTION" -> DispatchExecution(step, next_step_update)
          [] step.agent = "OUTPUT_FORMATTING" ->
                Command("output_agent",
                    next_step_update
                    @@ ("output_agent_messages" :> << Msg("human", step.query) >>)
                    @@ ("output_content" :>
                          IF Truthy(step.content) THEN oc \o <<step.content>> ELSE oc))
          [] step.agent = "end" -> EndOfPlan(index)
          [] OTHER ->
                Command("planner",
                    ("messages" :>
                        << [role |-> "redirector",
                            text |-> "Error at step {index}: Unknown agent {agent}",
                            index |-> index, tag |-> step.agent] >>))

\* the nodes a plan step is handed to
Workers == {"rag_agent", "executor", "output_agent"}

redirector ==
    /\ pc = "redirector"
    /\ IF RedirectorRaises(plan, step_index)
       THEN /\ pc' = "raised"
            /\ UNCHANGED <<wf, dispatched>>
       ELSE LET cmd == RedirectorCommand(plan, step_index, output_content) IN
            /\ Len(OperatorAdd(cmd.update, "output_content", output_content)) <= MaxContent
            /\ ApplyUpdate(cmd.update)
            /\ pc' = cmd.goto
            /\ dispatched' = IF cmd.goto \in Workers THEN step_index ELSE dispatched
    /\ UNCHANGED <<mgr, env, plans_made, result, rotation_list, mem>>
    /\ FrameLeft

\* ------------------------------------------------------ Execution worker
\* final answers of the tool-calling loop: the text, and the text as its
\* sequence of characters
Answers ==
    { [text |-> "Clicked the search button",
       chars |-> << "C", "l", "i", "c", "k", "e", "d", " ", "t", "h", "e", " ", "s", "e",
                   "a", "r", "c", "h", " ", "b", "u", "t", "t", "o", "n" >>],
      [text |-> "Login failed: couldn't locate field",
       chars |-> << "L", "o", "g", "i", "n", " ", "f", "a", "i", "l", "e", "d", ":", " ",
                   "c", "o", "u", "l", "d", "n", "'", "t", " ", "l", "o", "c", "a", "t",
                   "e", " ", "f", "i", "e", "l", "d" >>],
      [text |-> "No error occurred, proceeding",
       chars |-> << "N", "o", " ", "e", "r", "r", "o", "r", " ", "o", "c", "c", "u", "r",
                   "r", "e", "d", ",", " ", "p", "r", "o", "c", "e", "e", "d", "i", "n",
                   "g" >>] }

\* execution_agent: the words looked for, in the order of the list
TriggerWords ==
    << << "u", "n", "a", "b", "l", "e" >>,
       << "e", "r", "r", "o", "r" >>,
       << "c", "o", "u", "l", "d", "n", "'", "t" >>,
       << "f", "a", "i", "l", "e", "d" >>,
       << "e", "x", "e", "c", "u", "t", "i", "o", "n", " ", "f", "a", "i", "l",
          "e", "d" >> >>

NoError == << "n", "o", " ", "e", "r", "r", "o", "r" >>

\* execution_agent: next((w for w in [...] if w in output_lower), None), as
\* the position of the word in the list, 0 for None
trigger_word(output_lower) ==
    LET found == { k \in 1..Len(TriggerWords) : In(TriggerWords[k], output_lower) }
    IN  IF found = {} THEN 0
        ELSE CHOOSE k \in found : \A j \in found : k <= j

\* variant: the "no error" test is left out
SoftFailure_NoNegation(answer) ==
    trigger_word(lower(answer.chars)) # 0

\* execution_agent: `if trigger_word: if "no error" not in output_lower:`
SoftFailure(answer) ==
    LET output_lower == lower(answer.chars) IN
    /\ trigger_word(output_lower) # 0
    /\ ~In(NoError, output_lower)

\* execution_agent: the tools whose observations are collected
ExtractionTools ==
    {"scrape_data_using_text", "analyze_using_vision", "extract_and_analyze_selectors"}

\* a tool call of the loop and what it returned: str is str(observation),
\* json is json.dumps(observation), type is the observation's Python type
Call(tool, type, str, json) ==
    [tool |-> tool, observation |-> [type |-> type, str |-> str, json |-> json]]

\* execution_agent: `json.dumps(observation) if isinstance(observation,
\* (dict, list)) else str(observation)`
content(observation) ==
    IF observation.type \in {"dict", "list"} THEN observation.json
    ELSE observation.str

\* execution_agent: the loop over result["intermediate_steps"]
RECURSIVE Collected(_)
Collected(steps) ==
    IF steps = <<>> THEN <<>>
    ELSE (IF Head(steps).tool \in ExtractionTools
          THEN << content(Head(steps).observation) >> ELSE <<>>)
         \o Collected(Tail(steps))

LeftBrace == << "{" >>
LeftBracket == << "[" >>

\* variant: an answer of exactly 20 characters counts as data
extracted_data_FromTwenty(steps, answer) ==
    LET collected == Collected(steps) IN
    IF collected = <<>> /\ Len(answer.chars) >= 20
         /\ (In(LeftBrace, answer.chars) \/ In(LeftBracket, answer.chars))
    THEN << answer.text >>
    ELSE collected

\* execution_agent: extracted_data once the loop and the `if not
\* extracted_data and len(output_text) > 20 and ...` have run
extracted_data(steps, answer) ==
    LET collected == Collected(steps) IN
    IF collected = <<>> /\ Len(answer.chars) > 20
         /\ (In(LeftBrace, answer.chars) \/ In(LeftBracket, answer.chars))
    THEN << answer.text >>
    ELSE collected

\* the tool calls of one loop
ToolRuns == { <<>>, << Call("scrape_data_using_text", "str", "data", "\"data\"") >> }

\* execution_agent: the Command of a successful model call with candidate idx
ExecutionSuccess(idx, answer, steps) ==
    LET n == Len(get_execution_llm_with_rotation(current_model_index))
        successful_index == SuccessfulIndex(current_model_index, idx, n)
        new_msg == Msg("execution_agent", answer.text)
    IN  IF SoftFailure(answer)
        THEN Command("planner",
                 ("last_error" :> answer.text)
                 @@ ("current_model_index" :> successful_index))
        ELSE Command("redirector",
                 ("execution_messages" :> <<new_msg>>)
                 @@ ("messages" :> <<new_msg>>)
                 @@ ("current_model_index" :> successful_index)
                 @@ (IF extracted_data(steps, answer) # <<>>
                     THEN ("output_content" :> extracted_data(steps, answer))
                     ELSE NoUpdate))

\* execution_agent: the `if` of the except clause (rate and size limits)
ExecutionRetryable(error_str) ==
    \/ In(Sig429, error_str) \/ In(Sig413, error_str)
    \/ In(SigRateLimit, error_str) \/ In(SigQuota, error_str)
    \/ In(SigResourceExhausted, error_str) \/ In(SigRequestTooLarge, error_str)

\* variant: a malformed tool call or an unknown model is not passed over
ToolOrModelError_Never(error_str) == FALSE

\* execution_agent: the `elif` of the except clause
ToolOrModelError(error_str) ==
    \/ In(SigFailedToCall, error_str) \/ In(SigToolCall, error_str)
    \/ In(SigModelNotFound, error_str) \/ In(SigDoesNotExist, error_str)

ExecutionContinues(e) ==
    LET error_str == lower(e.chars)
    IN  ExecutionRetryable(error_str) \/ ToolOrModelError(error_str)

\* execution_agent: the `else` of the except clause, for the exception e
ExecutionCrash(e) ==
    LET error_msg == "AGENT CRASHED: " \o e.text
        new_msg == Msg("execution_agent", error_msg)
    IN  Command("planner",
            ("execution_messages" :> <<new_msg>>)
            @@ ("messages" :> <<new_msg>>)
            @@ ("step_index" :> step_index)
            @@ ("last_error" :> error_msg))

\* execution_agent: the return after the loop, every candidate having raised
\* an exception the loop continues on
ExecutionExhausted(loop_last_error) ==
    LET final_msg ==
            Msg("execution_agent",
                "All API keys exhausted due to rate limits. Last error: "
                    \o loop_last_error)
    IN  Command("END",
            ("messages" :> <<final_msg>>)
            @@ ("last_error" :> "ALL KEYS EXHAUSTED: " \o loop_last_error))

\* execution_agent, for the browser effects FX of its tool calls, the
\* model-call failures EX, the answers A of the model and the tool calls IS
\* of a loop; intermediate_steps is kept for the return that reads it
Executor(FX, EX, A, IS) ==
    /\ pc = "executor"
    /\ \/ \* TAVILY_API_KEY is missing
          /\ ~tavily_key
          /\ pc' = "raised"
          /\ UNCHANGED <<wf, mgr>>
          /\ FrameLeft
       \/ /\ tavily_key
          /\ \E fx \in FX,
                run \in RotationLoop(
                           Len(get_execution_llm_with_rotation(current_model_index)),
                           EX, { e \in EX : ExecutionContinues(e) }, NoException) :
                /\ SetManager(AfterEffect(Manager, fx))
                /\ tried' = run.tried
                /\ caught' = run.last.text
                /\ ended' = run.end
                /\ doc' = None
                /\ \E out \in
                        CASE run.end = "return" ->
                                { [cmd |-> ExecutionSuccess(run.tried - 1, a, steps),
                                   steps |-> steps] : a \in A, steps \in IS }
                          [] run.end = "break" ->
                                { [cmd |-> ExecutionCrash(run.last), steps |-> <<>>] }
                          [] OTHER ->
                                { [cmd |-> ExecutionExhausted(run.last.text),
                                   steps |-> <<>>] } :
                      /\ Len(OperatorAdd(out.cmd.update, "output_content",
                                         output_content)) <= MaxContent
                      /\ ApplyUpdate(out.cmd.update)
                      /\ pc' = out.cmd.goto
                      /\ intermediate_steps' =
                            IF out.cmd.goto = "redirector" THEN out.steps ELSE <<>>
    /\ UNCHANGED <<env, plans_made, dispatched, result, rotation_list, mem>>

\* ------------------------------------------------------ Output Formatter
\* output_formatting_agent: the `if` of the except clause
FormatterRetryable(error_str) ==
    \/ In(Sig429, error_str) \/ In(SigRateLimit, error_str)
    \/ In(SigQuota, error_str) \/ In(SigResourceExhausted, error_str)

FormatterContinues(e) == FormatterRetryable(lower(e.chars))

\* variant: the failure string carries the signature, not the error text
FormattingFailed_NoText(loop_last_error) ==
    Command("redirector", ("Output" :> "Formatting failed: rate limit"))

\* output_formatting_agent: the return after the loop
FormattingFailed(loop_last_error) ==
    Command("redirector", ("Output" :> "Formatting failed: " \o loop_last_error))

\* output_formatting_agent: the return of the attempt with candidate idx
Formatted(idx) ==
    Command("redirector",
        ("Output" :> "formatted")
        @@ ("current_model_index" :>
              SuccessfulIndex(current_model_index, idx,
                  Len(rotate(main_keys, current_model_index)))))

\* output_formatting_agent, for the model-call failures EX
Formatter(EX) ==
    /\ pc = "output_agent"
    /\ \/ /\ NoValidKeys(main_keys)
          /\ pc' = "raised"
          /\ UNCHANGED wf
          /\ FrameLeft
       \/ /\ ~NoValidKeys(main_keys)
          /\ \E run \in RotationLoop(Len(rotate(main_keys, current_model_index)),
                                     EX, { e \in EX : FormatterContinues(e) },
                                     NoException) :
                LET cmd == IF run.end = "return" THEN Formatted(run.tried - 1)
                           ELSE FormattingFailed(run.last.text)
                IN  /\ ApplyUpdate(cmd.update)
                    /\ pc' = cmd.goto
                    /\ tried' = run.tried
                    /\ caught' = run.last.text
                    /\ ended' = run.end
                    /\ doc' = None
                    /\ intermediate_steps' = <<>>
    /\ UNCHANGED <<mgr, env, plans_made, dispatched, result, rotation_list, mem>>

\* ---------------------------------------------------------- Memory worker
\* rag: reading plan[step_index] or the page of a failing handle raises;
\* so does a failing add_documents
RagRaises ==
    \/ IsClosedRaises(Manager)
    \/ /\ step_index < Len(plan)
       /\ \/ plan[step_index + 1].query = Absent
          \/ plan[step_index + 1].agent = Absent

\* rag: the metadata of the Document, read at state["step_index"], the
\* index the Redirector has already advanced past the dispatched step
Metadata(steps, index) ==
    IF index < Len(steps)
    THEN [task |-> steps[index + 1].query, agent |-> steps[index + 1].agent]
    ELSE [task |-> "Unknown", agent |-> "Unknown"]

rag ==
    /\ pc = "rag_agent"
    /\ \/ /\ RagRaises
          /\ pc' = "raised"
          /\ doc' = None
          /\ UNCHANGED wf
       \/ \* vector_db.add_documents raises
          /\ ~RagRaises
          /\ pc' = "raised"
          /\ doc' = None
          /\ UNCHANGED wf
       \/ \* doc is what add_documents was handed
          /\ ~RagRaises
          /\ doc' = Metadata(plan, step_index)
          /\ ApplyUpdate(("messages" :> << Msg("RAG Agent", "Memory Saved") >>))
          /\ pc' = "redirector"
    /\ UNCHANGED <<mgr, env, plans_made, dispatched, result, rotation_list, mem>>
    /\ tried' = 0 /\ caught' = None /\ ended' = "" /\ intermediate_steps' = <<>>

\* ------------------------------------------------------------- run_agent
\* the caller aborts the run while a node waits on a model or browser call
\* (KeyboardInterrupt: not an Exception, so run_agent's except is skipped)
Abort ==
    /\ pc \in {"planner", "executor", "output_agent"}
    /\ pc' = "aborted"
    /\ UNCHANGED <<wf, mgr, env, plans_made, dispatched, result, rotation_list, mem>>
    /\ FrameLeft

Raised == "<raised>"

\* run_agent: what the try/except hands back for each way app.invoke ends
ReturnValue(at, out) ==
    CASE at = "END" -> [key |-> "output", value |-> out]
      [] at = "raised" -> [key |-> "error", value |-> "Error during agent running: {e}"]
      [] OTHER -> [key |-> Raised, value |-> "KeyboardInterrupt"]

\* run_agent: the finally block; is_browser_open() is not guarded, so an
\* exception of is_closed() replaces the return value
run_agent_exit ==
    /\ pc \in {"END", "raised", "aborted"}
    /\ IF IsClosedRaises(Manager)
       THEN /\ result' = [key |-> Raised, value |-> "is_closed"]
            /\ UNCHANGED mgr
       ELSE /\ result' = ReturnValue(pc, Output)
            /\ SetManager(IF is_browser_open(Manager)
                          THEN close_browser(Manager) ELSE Manager)
    /\ pc' = "done"
    /\ UNCHANGED <<wf, env, plans_made, dispatched, rotation_list, mem>>
    /\ FrameLeft

\* The workflow under every model answer, with tools that leave the browser
\* as it is.
central_agent1 == Planner(Responses, FewModelErrors)

execution_agent == Executor({"none"}, FewModelErrors, Answers, ToolRuns)

output_formatting_agent == Formatter(FewModelErrors)

Next ==
    \/ central_agent1
    \/ redirector
    \/ execution_agent
    \/ output_formatting_agent
    \/ rag
    \/ Abort
    \/ run_agent_exit

Spec == Init /\ [][Next]_vars

\* The run together with the browser: tools open the browser, the page is
\* closed from outside or its handle starts failing.
central_agent1_browser == Planner(BrowserRunResponses, FewModelErrors)

execution_agent_browser == Executor(BrowserEffects, FewModelErrors, Answers, ToolRuns)

NextBrowser ==
    \/ central_agent1_browser
    \/ redirector
    \/ execution_agent_browser
    \/ output_formatting_agent
    \/ rag
    \/ Abort
    \/ run_agent_exit

SpecBrowser == Init /\ [][NextBrowser]_vars

\* --------------------------------- the Execution worker under failures
\* Every failure a model call of the Execution worker can raise, its loop
\* running over the rotation it asks for; the plans include the one with two
\* Execution steps in a row.
ExecutionRunResponses ==
    BrowserRunResponses
    \cup { r \in Responses :
              /\ r.kind = "json" /\ Len(r.steps) > 1
              /\ \A i \in 1..2 : IsDict(r.steps[i]) /\ r.steps[i].agent = "EXECUTION" }

central_agent1_execution == Planner(ExecutionRunResponses, FewModelErrors)

execution_agent_failures == Executor({"none"}, ModelErrors, Answers, ToolRuns)

NextExecutionFailures ==
    \/ central_agent1_execution
    \/ redirector
    \/ execution_agent_failures
    \/ output_formatting_agent
    \/ rag
    \/ Abort
    \/ run_agent_exit

SpecExecutionFailures == Init /\ [][NextExecutionFailures]_vars

\* ------------------------------ the Execution worker collecting its data
\* The tool calls of a loop and the answers that decide what is appended to
\* output_content: answers with a bracket that are longer than, and exactly,
\* 20 characters, and one without; loops with no call, with no extraction
\* call, and with extraction calls around another call, in both orders.
ExtractionAnswers ==
    {
      [text |-> "Prices found: [10, 20, 30]",
       chars |-> << "P", "r", "i", "c", "e", "s", " ", "f", "o", "u", "n", "d", ":", " ",
                    "[", "1", "0", ",", " ", "2", "0", ",", " ", "3", "0", "]" >>],
      [text |-> "Found items: [1, 2].",
       chars |-> << "F", "o", "u", "n", "d", " ", "i", "t", "e", "m", "s", ":", " ", "[",
                    "1", ",", " ", "2", "]", "." >>],
      [text |-> "Clicked the search button",
       chars |-> << "C", "l", "i", "c", "k", "e", "d", " ", "t", "h", "e", " ", "s", "e",
                    "a", "r", "c", "h", " ", "b", "u", "t", "t", "o", "n" >>] }

Scraped == Call("scrape_data_using_text", "str", "rows: 2", "\"rows: 2\"")
Seen == Call("analyze_using_vision", "dict", "{'price': 10}", "{\"price\": 10}")
Clicked == Call("click_id", "str", "Clicked", "\"Clicked\"")

ExtractionRuns ==
    { <<>>, << Clicked >>, << Scraped, Clicked, Seen >>, << Seen, Scraped >> }

\* the plans explored with it: two Execution steps before a return to the
\* Planner, and a plan for the Memory worker and the Output Formatter
ExtractionResponses ==
    { r \in Responses :
        /\ r.kind = "json" /\ Len(r.steps) = 3
        /\ r.steps[1].query \in {"open", "store"} }

central_agent1_extraction == Planner(ExtractionResponses, {})

execution_agent_extracting ==
    Executor({"none"}, {RateLimited}, ExtractionAnswers, ExtractionRuns)

NextExtraction ==
    \/ central_agent1_extraction
    \/ redirector
    \/ execution_agent_extracting
    \/ output_formatting_agent
    \/ rag
    \/ Abort
    \/ run_agent_exit

SpecExtraction == Init /\ [][NextExtraction]_vars

\* ------------------------------------- the workflow with LLMRouter as it is
\* Spec and SpecBrowser give the Execution worker the rotation it asks for;
\* here the request meets the class as router.py defines it.
\* the methods class LLMRouter defines
LLMRouterMethods ==
    {"get_main_llm_with_rotation", "get_vision_llm_with_rotation",
     "get_main_llm", "get_vision_llm"}

\* execution_agent up to its rotation request: the TAVILY_API_KEY check,
\* then the attribute lookup LLMConfig.get_execution_llm_with_rotation
execution_agent_as_built ==
    /\ pc = "executor"
    /\ ~tavily_key \/ "get_execution_llm_with_rotation" \notin LLMRouterMethods
    /\ pc' = "raised"
    /\ UNCHANGED <<wf, mgr, env, plans_made, dispatched, result, rotation_list, mem>>
    /\ FrameLeft

NextAsBuilt ==
    \/ central_agent1
    \/ redirector
    \/ execution_agent_as_built
    \/ output_formatting_agent
    \/ rag
    \/ Abort
    \/ run_agent_exit

SpecAsBuilt == Init /\ [][NextAsBuilt]_vars

\* Every failure a model call of the Planner and of the Output Formatter can
\* raise, and every answer of the model, the empty one included.
central_agent1_failures == Planner(Responses \cup {EmptyResponse}, ModelErrors)

output_formatting_agent_failures == Formatter(ModelErrors)

NextFailures ==
    \/ central_agent1_failures
    \/ redirector
    \/ execution_agent_as_built
    \/ output_formatting_agent_failures
    \/ rag
    \/ Abort
    \/ run_agent_exit

SpecFailures == Init /\ [][NextFailures]_vars

\* ------------------------------------------------ rotation requests alone
\* get_main_llm_with_rotation called directly with any start_index, for any
\* number of configured keys; the list it returns is rotated once more with
\* rotate_keys.
InitRotation ==
    /\ pc = "request"
    /\ plan = <<>>
    /\ step_index = 0
    /\ last_error = None
    /\ urls = <<>>
    /\ site_names = <<>>
    /\ output_content = <<>>
    /\ Output = ""
    /\ current_model_index \in 0..MaxStart
    /\ messages = NoMsg
    /\ execution_messages = NoMsg
    /\ rag_messages = NoMsg
    /\ output_agent_messages = NoMsg
    /\ page = None
    /\ browser = None
    /\ playwright = None
    /\ current_site_name = None
    /\ contexts = 0
    /\ tavily_key = TRUE
    /\ main_keys \in { BuildMain(g, q) : g \in 0..MaxKeys, q \in 0..MaxKeys }
    /\ plans_made = 0
    /\ dispatched = -1
    /\ result = [key |-> "", value |-> ""]
    /\ rotation_list = <<>>
    /\ tried = 0
    /\ caught = None
    /\ ended = ""
    /\ doc = None
    /\ intermediate_steps = <<>>
    /\ HAS_CHROMADB = TRUE
    /\ vector_db_instance = None
    /\ documents = {}

\* LLMRouter.get_main_llm_with_rotation(start_index = current_model_index)
get_main_llm_with_rotation ==
    /\ pc = "request"
    /\ IF NoValidKeys(main_keys)
       THEN /\ pc' = "raised"
            /\ rotation_list' = rotation_list
       ELSE /\ pc' = "returned"
            /\ rotation_list' = rotate(main_keys, current_model_index)
    /\ UNCHANGED <<wf, mgr, env, plans_made, dispatched, result, loop, mem>>

\* api_key_rotator.rotate_keys(rotation_list, start_index), any start_index;
\* current_model_index keeps the offset of this second rotation
rotate_keys_again ==
    /\ pc = "returned"
    /\ \E start_index \in 0..MaxStart :
          /\ rotation_list' = rotate_keys(rotation_list, start_index)
          /\ current_model_index' = start_index
    /\ pc' = "rotated_again"
    /\ UNCHANGED <<plan, step_index, last_error, urls, site_names, output_content,
                   Output, messages, execution_messages, rag_messages,
                   output_agent_messages, mgr, env, plans_made, dispatched, result, loop, mem>>

\* the loop of a worker over the list it was handed: candidate idx is the
\* first to get through, and successful_index is what the worker returns as
\* current_model_index; result keeps the candidate's name
candidate_succeeds ==
    /\ pc = "returned"
    /\ \E idx \in 0..(Len(rotation_list) - 1) :
          /\ current_model_index'
                = SuccessfulIndex(current_model_index, idx, Len(rotation_list))
          /\ result' = [key |-> "model_name", value |-> rotation_list[idx + 1]]
    /\ pc' = "succeeded"
    /\ UNCHANGED <<plan, step_index, last_error, urls, site_names, output_content,
                   Output, messages, execution_messages, rag_messages,
                   output_agent_messages, mgr, env, plans_made, dispatched,
                   rotation_list, loop, mem>>

NextRotation ==
    \/ get_main_llm_with_rotation
    \/ rotate_keys_again
    \/ candidate_succeeds

SpecRotation == InitRotation /\ [][NextRotation]_vars

\* --------------------------------------------- the nodes on any state
\* central_agent1(state) and redirector(state) are functions of the state
\* they are handed: here the graph is entered at either node with any plan
\* the Planner can have produced, any position in it, with or without a
\* pending error and collected data, and then runs as built.
EntryPlans == { FinalPlan(<<>>, r.steps) : r \in { x \in Responses : AttemptSucceeds(x) } }

InitAnyState ==
    /\ pc \in {"planner", "redirector"}
    /\ plan \in EntryPlans
    /\ step_index \in 0..Len(plan)
    /\ last_error \in {None, "Login failed: couldn't locate field"}
    /\ urls = <<>>
    /\ site_names = <<>>
    /\ output_content \in {<<>>, <<"data">>}
    /\ Output = ""
    /\ current_model_index = 0
    /\ messages = NoMsg
    /\ execution_messages = NoMsg
    /\ rag_messages = NoMsg
    /\ output_agent_messages = NoMsg
    /\ page = None
    /\ browser = None
    /\ playwright = None
    /\ current_site_name = None
    /\ contexts = 0
    /\ tavily_key \in BOOLEAN
    /\ main_keys \in {<<>>, MainBuilt}
    /\ plans_made = 0
    /\ dispatched = -1
    /\ result = [key |-> "", value |-> ""]
    /\ rotation_list = <<>>
    /\ tried = 0
    /\ caught = None
    /\ ended = ""
    /\ doc = None
    /\ intermediate_steps = <<>>
    /\ HAS_CHROMADB = TRUE
    /\ vector_db_instance = None
    /\ documents = {}

SpecAnyState == InitAnyState /\ [][NextAsBuilt]_vars

\* ------------------------------------------ the providers fail for good
\* A run in which the model plans once, a plan of Memory and Formatter steps
\* that ends with a PLANNER step, and from then on every candidate of every
\* Planner call is rate-limited, too large or empty, all other worker calls
\* succeeding.  The graph runs the node it was sent to for as long as there
\* is one (app.invoke), which is the fairness of the specification.
MaxWork == 3

WorkSteps ==
    { Stp("RAG", "remember", None, "lesson", 0),
      Stp("OUTPUT_FORMATTING", "fmt", None, None, 0) }

OutagePlans ==
    { [kind |-> "json", sites |-> <<>>, urls |-> <<>>,
       steps |-> work \o << Stp("PLANNER", "replan", None, None, 0) >>] :
          work \in UNION { [1..n -> WorkSteps] : n \in 1..MaxWork } }

InitOutage == Init /\ tavily_key /\ main_keys = MainBuilt

central_agent1_outage ==
    /\ Planner(OutagePlans \cup {EmptyResponse}, ModelErrors)
    /\ IF plans_made = 0 THEN ended' = "return" ELSE ended' = "exhausted"
    /\ doc' = None
    /\ intermediate_steps' = <<>>

rag_saves == rag /\ pc' = "redirector"

output_formatting_agent_succeeds == Formatter({})

NextOutage ==
    \/ central_agent1_outage
    \/ redirector
    \/ rag_saves
    \/ output_formatting_agent_succeeds

SpecOutage == InitOutage /\ [][NextOutage]_vars /\ WF_vars(NextOutage)

\* ------------------------------------------------- the error memory alone
\* get_vector_db, retrieve_errors and the storing of a document, called in
\* any order on a collection that may hold documents of earlier runs
\* (persist_directory="./rag_data").  The workflow specifications above
\* leave the collection as it is: no workflow field depends on it.

\* get_vector_db(): what it returns and what _vector_db_instance is after
\* the call; loads: constructing the embeddings and the collection succeeds
get_vector_db(has_chromadb, instance, loads) ==
    IF ~has_chromadb THEN [returns |-> None, instance |-> instance]
    ELSE IF instance = None
         THEN IF loads THEN [returns |-> "Chroma", instance |-> "Chroma"]
              ELSE [returns |-> None, instance |-> None]
         ELSE [returns |-> instance, instance |-> instance]

\* retrieve_errors: the sections appended for the sites whose search
\* returns documents (their numbered contents are left out)
RECURSIVE Lessons(_, _)
Lessons(current_sites, found) ==
    IF current_sites = <<>> THEN ""
    ELSE (IF Head(current_sites) \in found
          THEN "--- For " \o Head(current_sites) \o " ---" ELSE "")
         \o Lessons(Tail(current_sites), found)

\* retrieve_errors(state) with vector_db = what get_vector_db returned;
\* docs: the sites that have documents, failing: the sites whose
\* similarity_search raises (caught per site)
retrieve_errors(current_sites, vector_db, docs, failing) ==
    LET found == docs \ failing IN
    IF current_sites = <<>> THEN "No specific sites identified yet."
    ELSE IF vector_db = None THEN "Vector database not available."
    ELSE IF \A i \in 1..Len(current_sites) : current_sites[i] \notin found
         THEN "No previous errors found for these sites."
         ELSE "PAST ERRORS/LESSONS:" \o Lessons(current_sites, found)

\* the site_names a state can hold: up to MaxSites names, in any order
SiteLists == UNION { [1..n -> Sites] : n \in 0..MaxSites }

InitMemory ==
    /\ pc = "memory"
    /\ plan = <<>>
    /\ step_index = 0
    /\ last_error = None
    /\ urls = <<>>
    /\ site_names \in SiteLists
    /\ output_content = <<>>
    /\ Output = ""
    /\ current_model_index = 0
    /\ messages = NoMsg
    /\ execution_messages = NoMsg
    /\ rag_messages = NoMsg
    /\ output_agent_messages = NoMsg
    /\ page = None
    /\ browser = None
    /\ playwright = None
    /\ current_site_name = None
    /\ contexts = 0
    /\ tavily_key = TRUE
    /\ main_keys = MainBuilt
    /\ plans_made = 0
    /\ dispatched = -1
    /\ result = [key |-> "", value |-> ""]
    /\ rotation_list = <<>>
    /\ tried = 0
    /\ caught = None
    /\ ended = ""
    /\ doc = None
    /\ intermediate_steps = <<>>
    /\ HAS_CHROMADB \in BOOLEAN
    /\ vector_db_instance = None
    /\ documents \in SUBSET Sites

\* a call of retrieve_errors(state); result keeps what it returned
retrieve_errors_call ==
    /\ pc \in {"memory", "retrieved", "stored"}
    /\ \E loads \in BOOLEAN, failing \in SUBSET Sites :
          LET db == IF site_names = <<>>
                    THEN [returns |-> None, instance |-> vector_db_instance]
                    ELSE get_vector_db(HAS_CHROMADB, vector_db_instance, loads)
          IN  /\ vector_db_instance' = db.instance
              /\ result' = [key |-> "retrieve_errors",
                            value |-> retrieve_errors(site_names, db.returns,
                                                      documents, failing)]
    /\ pc' = "retrieved"
    /\ UNCHANGED <<wf, mgr, env, plans_made, dispatched, rotation_list, loop,
                   HAS_CHROMADB, documents>>

\* rag / central_agent1: `vector_db = get_vector_db()`, then
\* `if vector_db: vector_db.add_documents([doc])` for a document whose
\* site_name is the site of the open page
add_documents ==
    /\ pc \in {"memory", "retrieved", "stored"}
    /\ \E loads \in BOOLEAN, site_name \in Sites :
          LET db == get_vector_db(HAS_CHROMADB, vector_db_instance, loads)
          IN  /\ vector_db_instance' = db.instance
              /\ documents' = IF db.returns # None
                              THEN documents \cup {site_name} ELSE documents
    /\ pc' = "stored"
    /\ UNCHANGED <<wf, mgr, env, plans_made, dispatched, result, rotation_list,
                   loop, HAS_CHROMADB>>

NextMemory ==
    \/ retrieve_errors_call
    \/ add_documents

SpecMemory == InitMemory /\ [][NextMemory]_vars

\* ------------------------------------------------- vision rotation alone
\* get_vision_llm_with_rotation called directly with any start_index, for
\* any number of Groq keys and either answer of the probe of the local
\* provider; analyze_using_vision then walks the list it was handed.
GroqVisionNames ==
    <<"groq_llm1_vision", "groq_llm2_vision", "groq_llm3_vision", "groq_llm4_vision">>

\* api_key_rotator.get_groq_keys(): as many keys as the main rotation has
\* Groq candidates
GroqKeys(built) ==
    Cardinality({ i \in 1..Len(built) :
                    \E k \in 1..Len(GroqNames) : built[i] = GroqNames[k] })

\* get_vision_llm_with_rotation: rotation_list before the rotation; ollama:
\* check_availability() returned True and get_model did not raise
BuildVision(ollama, n_groq) ==
    (IF ollama THEN <<"ollama_vision">> ELSE <<>>) \o Take(GroqVisionNames, n_groq)

\* get_vision_llm_with_rotation, the rotation step
rotate_vision(L, start_index) ==
    IF start_index > 0 /\ Len(L) > 1
    THEN Drop(L, start_index) \o Take(L, start_index)
    ELSE L

\* LLMRouter.get_vision_llm_with_rotation(start_index = current_model_index);
\* result keeps what the probe answered
get_vision_llm_with_rotation ==
    /\ pc = "request"
    /\ \E available \in BOOLEAN, model_built \in BOOLEAN :
          LET L == BuildVision(available /\ model_built, GroqKeys(main_keys)) IN
          /\ result' = [key |-> "check_availability",
                        value |-> IF available THEN "True" ELSE "False"]
          /\ IF L = <<>>
             THEN /\ pc' = "raised"
                  /\ rotation_list' = rotation_list
             ELSE /\ pc' = "returned"
                  /\ rotation_list' = rotate_vision(L, current_model_index)
    /\ UNCHANGED <<wf, mgr, env, plans_made, dispatched, loop, mem>>

\* analyze_using_vision: candidate idx of the list is the one that answers
vision_candidate_answers ==
    /\ pc = "returned"
    /\ \E idx \in 0..(Len(rotation_list) - 1) :
          result' = [key |-> "model_name", value |-> rotation_list[idx + 1]]
    /\ pc' = "analyzed"
    /\ UNCHANGED <<wf, mgr, env, plans_made, dispatched, rotation_list, loop, mem>>

NextVision ==
    \/ get_vision_llm_with_rotation
    \/ vision_candidate_answers

SpecVision == InitRotation /\ [][NextVision]_vars

\* ================================================================ claims
PlanUpdated == "[Planner]: Plan updated."

\* the step that just happened is a Planner call that succeeded
PlannerSucceeded ==
    /\ pc = "planner"
    /\ pc' = "redirector"
    /\ messages'.text = PlanUpdated

EntryMode == PlannerMode(output_content, step_index, last_error)

\* C1: a Planner call entered in error-recovery mode at step_index s that
\* succeeds returns a plan whose first s steps are the first s steps of the
\* prior plan, field for field (step_number included).
C1_RecoveryKeepsPrefix ==
    [][ (PlannerSucceeded /\ EntryMode = "recovery")
          => /\ Len(plan') >= step_index
             /\ Take(plan', step_index) = Take(plan, step_index) ]_vars

\* a recovery re-plan has kept two steps and put new ones behind them
C1_Witness ==
    /\ pc = "redirector"
    /\ messages.text = PlanUpdated
    /\ step_index = 2
    /\ Len(plan) > 2

\* C2: after the EXECUTION step at position f failed and the Planner
\* succeeded in error-recovery mode, exactly the steps before f are kept and
\* the new steps start at position f, which is the next position dispatched.
C2_FailedStepReplaced ==
    [][ (PlannerSucceeded /\ EntryMode = "recovery")
          => /\ step_index' = dispatched
             /\ Take(plan', dispatched) = Take(plan, dispatched) ]_vars

\* C3: whatever fails inside a worker, and also when the cleanup meets a
\* failing browser handle, run_agent returns a dict with the key output or
\* the key error and raises nothing.
C3_RunAgentReturnsDict ==
    [][ (pc \in {"END", "raised"} /\ pc' = "done")
          => result'.key \in {"output", "error"} ]_vars

AllKeysExhausted == { "ALL KEYS EXHAUSTED: " \o e.text : e \in ModelErrors }

\* C4: when every candidate of the Execution worker's rotation fails with a
\* retryable signature, the caller of run_agent receives {error: ...}.
C4_ExhaustionReturnsError ==
    (pc = "done" /\ last_error \in AllKeysExhausted) => result.key = "error"

\* C5: once run_agent has exited, on any path, the browser manager holds no
\* page, no browser context and no driver handle.
C5_BrowserReleasedOnExit ==
    pc = "done" => (page = None /\ browser = None /\ playwright = None)

\* C6: with step_index >= len(plan), the empty plan included, the Redirector
\* routes to terminal, hands no step to a worker and changes no state field.
C6_PastTheEndIsTerminal ==
    [][ (pc = "redirector" /\ step_index >= Len(plan))
          => (pc' = "END" /\ UNCHANGED <<wf, mgr, dispatched>>) ]_vars

\* the Redirector ended a run whose non-empty plan had been worked through
C6_Witness ==
    /\ pc = "END"
    /\ plan # <<>>
    /\ step_index >= Len(plan)
    /\ last_error = None

\* C7: every change of step_index either increases it or sets it to 0.
C7_StepIndexUpOrZero ==
    [][ step_index' # step_index
          => (step_index' > step_index \/ step_index' = 0) ]_vars

\* a PLANNER step reset step_index from 2 to 0
C7_Witness ==
    /\ pc = "planner"
    /\ step_index = 0
    /\ dispatched = 1
    /\ messages.text = "Phase 1 complete. Data extracted. Please plan Phase 2."

\* the Redirector's update advances step_index by one / resets it to 0
Advances(u) == "step_index" \in DOMAIN u /\ u["step_index"] = step_index + 1

Resets(u) == "step_index" \in DOMAIN u /\ u["step_index"] = 0

RedirectorUpdate == RedirectorCommand(plan, step_index, output_content).update

\* C8 (as claimed): every Redirector call, also with step_index >= len(plan)
\* or an unknown agent tag, either advances step_index by 1 or resets it to 0.
C8_AlwaysAdvanceOrReset ==
    (pc = "redirector" /\ ~RedirectorRaises(plan, step_index))
        => (Advances(RedirectorUpdate) # Resets(RedirectorUpdate))

\* C8 (amended): a Redirector call never both advances and resets
\* step_index.  A call that returns a command for a step with one of the five
\* known tags does exactly one of the two; a call with step_index >=
\* len(plan), a call on an unknown tag and a call that raises on a step
\* lacking a key it reads leave step_index as it is.
C8_KnownTagAdvanceOrReset ==
    [][ pc = "redirector" =>
          IF /\ ~RedirectorRaises(plan, step_index)
             /\ step_index < Len(plan)
             /\ plan[step_index + 1].agent \in Agents
          THEN /\ Advances(RedirectorUpdate) # Resets(RedirectorUpdate)
               /\ step_index' = RedirectorUpdate["step_index"]
          ELSE step_index' = step_index ]_vars

\* the Redirector has handed the third step of a plan to the Execution worker
C8_Witness ==
    /\ pc = "executor"
    /\ dispatched = 2
    /\ step_index = 3
    /\ plan[3].agent = "EXECUTION"

C10_AnyModeKeepsPrefix ==
    [][ PlannerSucceeded
          => /\ Len(plan') >= step_index
             /\ Take(plan', step_index) = Take(plan, step_index) ]_vars

\* the list a rotation is specified to return: position i holds the element
\* at (start_index + i) mod len of the built list
Cyclic(L, start_index) ==
    [i \in 1..Len(L) |-> L[((start_index + (i - 1)) % Len(L)) + 1]]

\* C15: for every non-empty built list L and every start_index >= 0, also
\* start_index >= len(L), the rotation returned has the length of L and holds
\* L[(start_index + i) mod len(L)] at every position i.
C15_RotationIsCyclic ==
    pc = "returned" => rotation_list = Cyclic(main_keys, current_model_index)

\* C16: rotate(L, 0) = L; for 0 < k < len(L), rotate(L, k)[0] = L[k]; and for
\* all a, b >= 0, rotate(rotate(L, a), b) = rotate(L, (a + b) mod len(L)).
C16_RotationLaws ==
    [][ /\ (pc = "request" /\ pc' = "returned")
            => /\ current_model_index = 0 => rotation_list' = main_keys
               /\ (0 < current_model_index /\ current_model_index < Len(main_keys))
                     => rotation_list'[1] = main_keys[current_model_index + 1]
        /\ (pc = "returned" /\ pc' = "rotated_again")
            => rotation_list' =
                 rotate(main_keys,
                        (current_model_index + current_model_index') % Len(main_keys))
      ]_vars

\* the Redirector is about to dispatch a step with the agent tag a
AtStep(a) ==
    /\ pc = "redirector"
    /\ step_index < Len(plan)
    /\ plan[step_index + 1].agent = a

\* C11: dispatching an OUTPUT_FORMATTING step leaves output_content as it was
\* followed by the step's content (as it was when the step has no content),
\* gives the Formatter the step's query and advances step_index by 1.
C11_FormattingAppendsContentOnce ==
    [][ (AtStep("OUTPUT_FORMATTING") /\ ~RedirectorRaises(plan, step_index))
          => LET step == plan[step_index + 1] IN
             /\ pc' = "output_agent"
             /\ output_agent_messages'.text = step.query
             /\ step_index' = step_index + 1
             /\ output_content' =
                   IF step.content \in {Absent, None, ""}
                   THEN output_content
                   ELSE output_content \o <<step.content>> ]_vars

\* C12: every RAG step is routed to the Memory worker with step_index
\* advanced by 1; the message is rag_message when that is present and
\* non-empty, and the query when rag_message is absent or empty.
C12_RagStepAlwaysDispatched ==
    [][ (AtStep("RAG") /\ plan[step_index + 1].query \notin {Absent, None})
          => LET step == plan[step_index + 1] IN
             /\ pc' = "rag_agent"
             /\ step_index' = step_index + 1
             /\ rag_messages'.text =
                   IF step.rag_message \in {Absent, None, ""}
                   THEN step.query ELSE step.rag_message ]_vars

\* C13: for a step whose agent tag is none of the five, the Redirector
\* routes to the Planner with a message holding the step index and the tag,
\* leaves plan and step_index unchanged, and the run does not crash.
C13_UnknownTagGoesToPlanner ==
    [][ ( /\ pc = "redirector"
          /\ step_index < Len(plan)
          /\ plan[step_index + 1].agent \notin Agents \cup {Absent} )
          => /\ pc' = "planner"
             /\ messages'.index = step_index
             /\ messages'.tag = plan[step_index + 1].agent
             /\ plan' = plan
             /\ step_index' = step_index ]_vars

\* C14: every step of every plan the Planner returns has one of the five
\* agent tags.
C14_PlanAgentsInEnum ==
    \A i \in 1..Len(plan) : plan[i].agent \in Agents

\* C18: with credentials configured, a dispatched EXECUTION step reaches the
\* Execution worker's model-call loop; the rotation request does not abort
\* the run.
C18_ExecutionRotationDefined ==
    [][ (pc = "executor" /\ tavily_key /\ ~NoValidKeys(main_keys))
          => pc' # "raised" ]_vars

\* C17: a rotation request never hands back an empty list: with no candidate
\* built it raises, and the worker that asked neither retries nor enters its
\* candidate loop (it changes no workflow field and the run ends in the
\* error path).
C17_EmptyRotationFails ==
    [][ (pc = "planner" \/ pc = "output_agent")
          => /\ (main_keys = <<>>) => (pc' \in {"raised", "aborted"} /\ UNCHANGED wf)
             /\ (pc' = "redirector") => (rotate(main_keys, current_model_index) # <<>>) ]_vars

\* the Planner's rotation request failed with the search key configured
C17_Witness ==
    /\ pc = "raised"
    /\ main_keys = <<>>
    /\ tavily_key
    /\ dispatched = -1
    /\ messages = NoMsg

\* C19: in every reachable state of the browser manager at most one browser
\* session is live.
C19_AtMostOneSession == contexts <= 1

\* the words the classification is specified with
FailureWords ==
    { << "u", "n", "a", "b", "l", "e" >>,
      << "e", "r", "r", "o", "r" >>,
      << "c", "o", "u", "l", "d", "n", "'", "t" >>,
      << "f", "a", "i", "l", "e", "d" >>,
      << "e", "x", "e", "c", "u", "t", "i", "o", "n", " ", "f", "a", "i", "l",
         "e", "d" >> }

\* the lower-cased text t has the word w somewhere in it
Mentions(t, w) ==
    \E i \in 1..(Len(t) - Len(w) + 1) :
        \A j \in 1..Len(w) : lower(t)[i + j - 1] = w[j]

\* C20: after a successful model call the Execution worker routes the answer
\* to the Planner as a soft failure (last_error = the answer) exactly when its
\* lower-cased text contains one of the five words and does not contain
\* "no error"; otherwise it routes to the Redirector.
C20_SoftFailureIffKeyword ==
    [][ pc = "executor" =>
          \A a \in Answers :
            LET soft == /\ \E w \in FailureWords : Mentions(a.chars, w)
                        /\ ~Mentions(a.chars, << "n", "o", " ", "e", "r", "r", "o", "r" >>)
            IN  /\ (pc' = "planner" /\ last_error' = a.text) => soft
                /\ (pc' = "redirector" /\ execution_messages'.text = a.text) => ~soft
      ]_vars

\* both answers of the claim were classified: the login failure went to the
\* Planner, and before that "No error occurred" went on to the Redirector
C20_Witness ==
    /\ pc = "planner"
    /\ last_error = "Login failed: couldn't locate field"
    /\ messages.text = "No error occurred, proceeding"

\* ---------------------------------------------------------------- C21
\* every text a failing attempt can leave in the loop's last_error
Exceptions ==
    ModelErrors \cup {EmptyOutput, JSONDecodeError, ListHasNoGet, StrItemAssignment}

\* str(e).lower() of the exception whose text is given
LowerText(text) == lower((CHOOSE e \in Exceptions : e.text = text).chars)

\* the rate-limit signatures: 429, rate limit, quota, resource_exhausted
RateLimitSignature(text) ==
    \E sig \in {Sig429, SigRateLimit, SigQuota, SigResourceExhausted} :
        In(sig, LowerText(text))

\* C21: a formatting call always hands over to the Redirector, never to the
\* terminal state or the Planner.  When its loop is left without a return
\* (every candidate failed with a rate-limit signature, or one failed with
\* another error and ended the loop), Output is "Formatting failed: "
\* followed by the text of the error caught last.
C21_FormatterAlwaysToRedirector ==
    [][ (pc = "output_agent" /\ pc' # "aborted")
          => /\ pc' = "redirector"
             /\ (ended' = "exhausted")
                   => (/\ tried' = Len(main_keys)
                       /\ RateLimitSignature(caught')
                       /\ Output' = "Formatting failed: " \o caught')
             /\ (ended' = "break")
                   => (/\ ~RateLimitSignature(caught')
                       /\ Output' = "Formatting failed: " \o caught')
             /\ (ended' = "return")
                   => (\A e \in Exceptions : Output' # "Formatting failed: " \o e.text)
             /\ UNCHANGED <<plan, step_index, last_error, output_content>> ]_vars

\* both failing ways out of the loop have been taken: here the second
\* candidate, the last one, was rate-limited
C21_Witness ==
    /\ pc = "redirector"
    /\ ended = "exhausted"
    /\ tried = 2
    /\ Output = "Formatting failed: Error code: 429 - Rate limit reached"

\* ---------------------------------------------------------------- C23
\* Scenario A: the plan [EXECUTION "search", OUTPUT_FORMATTING "format", end]
ScenarioA ==
    << Stp("EXECUTION", "search", Absent, Absent, 1),
       Stp("OUTPUT_FORMATTING", "format", Absent, Absent, 2),
       Stp("end", "done", Absent, Absent, 3) >>

\* C23: at an EXECUTION step that carries a query, the Redirector hands over
\* to the Execution worker with that query as the message and step_index
\* advanced by 1, plan and output_content as they were; for Scenario A at
\* step_index 0 the message is "search" and step_index becomes 1.
C23_ExecutionStepDispatched ==
    [][ (AtStep("EXECUTION") /\ plan[step_index + 1].query \notin {Absent, None})
          => /\ pc' = "executor"
             /\ execution_messages' = Msg("human", plan[step_index + 1].query)
             /\ step_index' = step_index + 1
             /\ plan' = plan
             /\ output_content' = output_content
             /\ (plan = ScenarioA /\ step_index = 0)
                   => (execution_messages'.text = "search" /\ step_index' = 1) ]_vars

\* Scenario A has been dispatched from step_index 0
C23_Witness ==
    /\ pc = "executor"
    /\ plan = ScenarioA
    /\ dispatched = 0
    /\ step_index = 1
    /\ execution_messages.text = "search"

\* ---------------------------------------------------------------- C24
\* the Execution worker returns from a soft failure: it hands over to the
\* Planner with an answer of the model as last_error
SoftFailureReturn ==
    /\ pc = "executor"
    /\ pc' = "planner"
    /\ \E a \in Answers : last_error' = a.text

\* C24: on a soft failure last_error is the exact answer text, an answer
\* that holds a failure word, plan, step_index and output_content are as
\* they were, and the Planner call that follows builds the error-recovery
\* prompt, whatever output_content holds.
C24_SoftFailureLeadsToRecovery ==
    [][ SoftFailureReturn
          => /\ \E a \in Answers :
                   /\ last_error' = a.text
                   /\ \E w \in FailureWords : Mentions(a.chars, w)
             /\ UNCHANGED <<plan, step_index, output_content>>
             /\ PlannerMode(output_content', step_index', last_error') = "recovery"
      ]_vars

\* a soft failure of the second Execution step, data being collected already
C24_Witness ==
    /\ pc = "planner"
    /\ last_error = "Login failed: couldn't locate field"
    /\ output_content # <<>>
    /\ step_index = 2
    /\ ended = "return"

\* ---------------------------------------------------------------- C25
\* the rate-limit, size-limit, tool-call-format and unknown-model signatures
ExecutionSignatures ==
    { Sig429, Sig413, SigRateLimit, SigQuota, SigResourceExhausted,
      SigRequestTooLarge, SigFailedToCall, SigToolCall, SigModelNotFound,
      SigDoesNotExist }

MatchesExecutionSignature(text) ==
    \E sig \in ExecutionSignatures : In(sig, LowerText(text))

\* C25: in the Execution worker an exception whose text matches none of the
\* signatures ends the loop at that candidate: the worker hands over to the
\* Planner with the exception in last_error, and step_index, plan and
\* current_model_index are as they were.  An exception whose text matches a
\* signature never ends the loop: the loop goes on to the next candidate, and
\* is left only by a later candidate's return or after the last candidate;
\* the attempts passed over leave no trace in the workflow state.
C25_OnlyUnknownErrorsCrash ==
    [][ (pc = "executor" /\ pc' \notin {"raised", "aborted"})
          => /\ (caught' # None /\ ~MatchesExecutionSignature(caught'))
                   => (/\ ended' = "break"
                       /\ pc' = "planner"
                       /\ last_error' = "AGENT CRASHED: " \o caught'
                       /\ UNCHANGED <<step_index, plan, current_model_index>>)
             /\ (caught' # None /\ MatchesExecutionSignature(caught'))
                   => (\/ ended' = "return" /\ tried' >= 2
                       \/ ended' = "exhausted" /\ tried' = Len(ExecBuilt))
             /\ (ended' = "return")
                   => (/\ UNCHANGED <<plan, step_index, urls, site_names, Output>>
                       /\ last_error' \in {last_error} \cup { a.text : a \in Answers }
                       /\ current_model_index'
                             = (current_model_index + tried' - 1) % Len(ExecBuilt)
                       /\ \/ UNCHANGED <<messages, execution_messages>>
                          \/ \E a \in Answers :
                                /\ messages' = Msg("execution_agent", a.text)
                                /\ execution_messages' = messages')
      ]_vars

\* the first candidate was passed over and the second one crashed
C25_Witness ==
    /\ pc = "planner"
    /\ ended = "break"
    /\ tried = 2
    /\ last_error = "AGENT CRASHED: Connection reset by peer"

\* ---------------------------------------------------------------- C26
\* a Planner call whose loop was left without a return
PlannerFellBack ==
    /\ pc = "planner"
    /\ ended' \in {"break", "exhausted"}

\* C26: a Planner call whose rotation is exhausted by retryable failures, or
\* whose loop a non-retryable failure ends, returns the prior plan, step_index
\* equal to the length of the retained prefix and last_error cleared, and
\* leaves current_model_index, urls and site_names as they were.
C26_FallbackKeepsState ==
    [][ PlannerFellBack
          => /\ pc' = "redirector"
             /\ plan' = plan
             /\ step_index'
                   = Len(CompletedSteps(plan, step_index,
                             PlannerMode(output_content, step_index, last_error)))
             /\ last_error' = None
             /\ UNCHANGED <<current_model_index, urls, site_names>> ]_vars

\* ---------------------------------------------------------------- C27
\* the rate-limit, quota and payload-too-large signatures
LimitSignatures ==
    { Sig429, Sig413, SigRateLimit, SigQuota, SigResourceExhausted,
      SigRequestTooLarge }

MatchesLimitSignature(text) ==
    \E sig \in LimitSignatures : In(sig, LowerText(text))

MatchesEmptyOutput(text) == In(SigEmptyOutput, LowerText(text))

\* the Planner's loop has run and its last failure is in caught'
PlannerLoopFailed ==
    /\ pc = "planner"
    /\ pc' = "redirector"
    /\ caught' # None

\* C27 as stated: in the Planner's loop a failure whose text matches a
\* rate-limit, quota or payload-too-large signature moves on to the next
\* candidate, and any other failure ends the loop at once.
C27_OnlyLimitsRetried ==
    [][ PlannerLoopFailed
          => /\ MatchesLimitSignature(caught') => ended' # "break"
             /\ ~MatchesLimitSignature(caught') => ended' = "break" ]_vars

\* C27 amended: in the Planner's loop a failure whose text matches a
\* rate-limit, quota or payload-too-large signature, or holds "empty output"
\* (the error the Planner raises itself when the model returns no output),
\* moves on to the next candidate: the loop is left only by a later
\* candidate's return or after the last candidate.  Any other failure, an
\* unparsable answer included, ends the loop at once.
C27_LimitsAndEmptyOutputRetried ==
    [][ PlannerLoopFailed
          => /\ (MatchesLimitSignature(caught') \/ MatchesEmptyOutput(caught'))
                   => (\/ ended' = "return" /\ tried' >= 2
                       \/ ended' = "exhausted" /\ tried' = Len(main_keys))
             /\ ~(MatchesLimitSignature(caught') \/ MatchesEmptyOutput(caught'))
                   => ended' = "break" ]_vars

\* the first candidate returned no output and the second one produced a plan
C27_Witness ==
    /\ pc = "redirector"
    /\ ended = "return"
    /\ tried = 2
    /\ caught = "Planner LLM returned empty output - retrying with next key"
    /\ plan # <<>>

\* ---------------------------------------------------------------- C28
\* C28: after a call succeeded with candidate M, current_model_index is a
\* position of the built list, the one M has there, so that the next request
\* puts M first; whatever current_model_index the call started from.
C28_IndexIsPositionOfCandidate ==
    (pc = "succeeded")
        => /\ current_model_index \in 0..(Len(main_keys) - 1)
           /\ main_keys[current_model_index + 1] = result.value
           /\ rotate(main_keys, current_model_index)[1] = result.value

\* ---------------------------------------------------------------- C30
\* C30: in every state of a run step_index is a position of the plan or its
\* length: 0 <= step_index <= len(plan).
C30_StepIndexWithinPlan ==
    /\ 0 <= step_index
    /\ step_index <= Len(plan)

\* the ways step_index moves have all been taken: a recovery kept a prefix
\* of a plan whose second step failed, and the end step reset it since
C30_Witness ==
    /\ pc = "END"
    /\ plan = <<>>
    /\ step_index = 0
    /\ plans_made = 2
    /\ dispatched = 3

\* ---------------------------------------------------------------- C22
\* C22: of two consecutive calls of retrieve_errors for sites that have no
\* stored records, the second returns the string the first returned,
\* whatever the collection was at the first call: not constructed, failing to
\* construct, or constructed and empty for those sites.
C22_RetrieveErrorsIdempotent ==
    [][ ( /\ pc = "retrieved" /\ pc' = "retrieved"
          /\ \A i \in 1..Len(site_names) : site_names[i] \notin documents )
          => result'.value = result.value ]_vars

C31_NoErrorAtRedirector ==
    (pc = "redirector") => last_error = None

\* the Execution worker crashed, which set last_error, and the Planner call
\* that followed fell back and cleared it
C31_Witness ==
    /\ pc = "redirector"
    /\ ended = "break"
    /\ execution_messages.text = "AGENT CRASHED: Connection reset by peer"
    /\ last_error = None

\* ---------------------------------------------------------------- C32
\* C32: at a PLANNER step the Redirector resets step_index to 0, keeps the
\* plan and hands over to the Planner, whose call then builds the
\* data-driven prompt exactly when output_content is non-empty; and a
\* Planner call with output_content non-empty, step_index 0 and last_error
\* set builds the data-driven prompt, not the error-recovery one.
C32_PlannerStepAndPrecedence ==
    /\ [][ (AtStep("PLANNER") /\ plan[step_index + 1].query \notin {Absent, None})
              => /\ step_index' = 0
                 /\ plan' = plan
                 /\ pc' = "planner"
                 /\ (PlannerMode(output_content', step_index', last_error') = "phase2")
                       <=> (output_content' # <<>>) ]_vars
    /\ []( (pc = "planner" /\ output_content # <<>> /\ step_index = 0
              /\ last_error # None)
             => PlannerMode(output_content, step_index, last_error) = "phase2" )

\* the Redirector has handed a PLANNER step over while data was collected
\* and an error was pending
C32_Witness ==
    /\ pc = "planner"
    /\ messages.text = "Phase 1 complete. Data extracted. Please plan Phase 2."
    /\ output_content # <<>>
    /\ step_index = 0
    /\ last_error # None
    /\ plan # <<>>

\* ---------------------------------------------------------------- C33
\* C33: at an `end` step, with or without a query, the Redirector goes to
\* the terminal state, resets step_index to 0 and clears the plan; once the
\* terminal state is reached no node runs again.
C33_EndStepTerminates ==
    [][ /\ AtStep("end")
            => (pc' = "END" /\ step_index' = 0 /\ plan' = <<>>)
        /\ (pc \in {"END", "done"})
            => (pc' \in {"END", "done"}) ]_vars

\* the workflow fields other than messages
BesidesMessages ==
    <<plan, step_index, last_error, urls, site_names, output_content, Output,
      current_model_index, execution_messages, rag_messages,
      output_agent_messages>>

\* C34: when the store fails while the Memory worker saves its record
\* (nothing else in the worker can raise: the step it reads is complete and
\* the page handle answers), the worker still routes to the Redirector and
\* changes no workflow field other than messages
C34_StoreFailureSwallowed ==
    [][ (pc = "rag_agent" /\ ~RagRaises)
           => (pc' = "redirector" /\ UNCHANGED BesidesMessages) ]_vars

\* C35: the record stored for a dispatched RAG step carries the query and
\* the agent tag of that RAG step, plan[step_index - 1] in the code's
\* numbering, wherever the step stands in the plan
C35_RecordKeyedByRagStep ==
    [][ (pc = "rag_agent" /\ pc' = "redirector")
           => /\ plan[step_index].agent = "RAG"
              /\ doc'.task = plan[step_index].query
              /\ doc'.agent = plan[step_index].agent ]_vars

\* a call of one of the three extraction tools
IsExtractionCall(call) ==
    call.tool \in {"scrape_data_using_text", "analyze_using_vision",
                   "extract_and_analyze_selectors"}

\* what the extraction calls among calls returned, in the order of the calls
PayloadsInCallOrder(calls) ==
    LET made == SelectSeq(calls, IsExtractionCall)
    IN  [ i \in 1..Len(made) |-> content(made[i].observation) ]

\* C36: a return of the Execution worker to the Redirector follows an answer
\* that is no failure; it appends to output_content the payloads of the
\* extraction calls of the loop in call order, the raw answer when there is
\* no such payload and the answer has more than 20 characters and a '{' or
\* '[', and nothing otherwise; plan and step_index stay as they are
C36_ExtractedDataAppended ==
    [][ (pc = "executor" /\ pc' = "redirector")
           => LET a == CHOOSE x \in ExtractionAnswers :
                           x.text = execution_messages'.text
                  payloads == PayloadsInCallOrder(intermediate_steps')
                  looks_structured ==
                      /\ Len(a.chars) > 20
                      /\ \E i \in 1..Len(a.chars) : a.chars[i] \in {"{", "["}
                  appended == IF payloads # <<>> THEN payloads
                              ELSE IF looks_structured THEN << a.text >>
                              ELSE <<>>
              IN  /\ ~SoftFailure(a)
                  /\ output_content' = output_content \o appended
                  /\ plan' = plan
                  /\ step_index' = step_index ]_vars

C36_Witness ==
    /\ pc = "redirector"
    /\ intermediate_steps = << Scraped, Clicked, Seen >>
    /\ output_content = << "rows: 2", "{\"price\": 10}" >>

\* the mailbox of a worker and the tag of the steps it is handed
MailboxOf(worker) ==
    CASE worker = "executor" -> execution_messages
      [] worker = "rag_agent" -> rag_messages
      [] worker = "output_agent" -> output_agent_messages

TagOf(worker) ==
    CASE worker = "executor" -> "EXECUTION"
      [] worker = "rag_agent" -> "RAG"
      [] worker = "output_agent" -> "OUTPUT_FORMATTING"

\* the instruction a step holds for its worker
InstructionOf(step) ==
    IF step.agent = "RAG" /\ step.rag_message \notin {None, ""}
    THEN step.rag_message ELSE step.query

\* C37: when a worker is about to run, the step before step_index is a step
\* for that worker, and the last message of the worker's mailbox is the
\* Redirector's message with the instruction of that step, not an answer a
\* worker appended
C37_WorkerReadsItsInstruction ==
    pc \in Workers
        => /\ step_index \in 1..Len(plan)
           /\ dispatched = step_index - 1
           /\ plan[step_index].agent = TagOf(pc)
           /\ MailboxOf(pc).role = "human"
           /\ MailboxOf(pc).text = InstructionOf(plan[step_index])

\* the second of two Execution steps starts after the first one's answer
\* went into the mailbox
C37_Witness ==
    /\ pc = "executor"
    /\ step_index = 2
    /\ plan[1].agent = "EXECUTION"
    /\ messages.role = "execution_agent"
    /\ execution_messages = Msg("human", plan[2].query)

\* C38: a vision rotation built after the probe of the local provider
\* succeeded has the local provider as its first candidate, whatever
\* start_index it was asked with
C38_LocalProviderFirst ==
    (pc = "returned" /\ result = [key |-> "check_availability", value |-> "True"])
        => rotation_list[1] = "ollama_vision"
====
